---- MODULE Spec2Model ----
(***************************************************************************)
(* State-machine model of the human-play episode runner,                   *)
(* src/play_nethack_human.py (run_human_episode and what it calls), and of *)
(* the model-driven episode loop of src/train_textworld.py.  A behaviour   *)
(* is one run of one of the two scripts.                                   *)
(*                                                                         *)
(* A Python str is modelled as a sequence of one-character strings, so     *)
(* that strip(), lower(), startswith(), split() and int() are computed     *)
(* character by character.  The environment (gym / NLE), the operator at   *)
(* the keyboard and the file system are external: their answers are drawn  *)
(* from small sets.                                                        *)
(***************************************************************************)
EXTENDS Integers, Sequences, FiniteSets, TLC

VARIABLES
    pc,              \* position of run_human_episode
    args,            \* its arguments: max_steps, seed (optional), clock reading
    seed,            \* the resolved seed (line 207)
    episode_log,     \* dict episode_log (lines 222-226, 339-341), <<>> before it exists
    tracker,         \* the GameTracker object
    env,             \* the environment resource: "absent", "open", "closed"
    stepCalled,      \* env.step has been called at least once
    applied,         \* the number of env.step calls that returned (the steps applied)
    obs,             \* local obs: the current snapshot
    done,            \* local done
    step,            \* local step
    episode_return,  \* local episode_return
    csv,             \* the trajectory file: [exists, rows]
    debug,           \* step numbers whose debug/step_NNNN.json was written
    summary_file,    \* the JSON summary file: <<>> or <<contents>>
    result,          \* what run_human_episode returned: <<>> or <<value>>
    typed,           \* what the operator typed at the last prompt (raw)
    action_str,      \* local action_str
    action,          \* local action
    screen,          \* what display_game_state last printed as the map
    last,            \* the last thing the loop body did
    term,            \* how the while loop was left: "", "ENVIRONMENT", "LIMIT", "USER"
    main,            \* the command-line entry point: what it printed and how it exited
    tw,              \* the state of the train_textworld.py script
    stdin,           \* what input() reads from: a terminal, or a script of lines
    earlier          \* what an earlier run of run_human_episode left on disk

vars == <<pc, args, seed, episode_log, tracker, env, stepCalled, applied, obs, done, step,
          episode_return, csv, debug, summary_file, result, typed, action_str,
          action, screen, last, term, main, tw, stdin, earlier>>

\* the variables of the human-play script
hvars == <<pc, args, seed, episode_log, tracker, env, stepCalled, applied, obs, done, step,
           episode_return, csv, debug, summary_file, result, typed, action_str,
           action, screen, last, term, main, stdin, earlier>>

(***************************************************************************)
(* Bounds of the model.                                                    *)
(***************************************************************************)
\* the largest --steps value (max_steps) the model runs an episode with
MaxSteps == 2

(***************************************************************************)
(* str methods used by the command loop.                                   *)
(***************************************************************************)
IsSpace(c) == c \in {" ", "\t", "\n"}

RECURSIVE LStrip(_)
LStrip(s) == IF s # << >> /\ IsSpace(Head(s)) THEN LStrip(Tail(s)) ELSE s

RECURSIVE RStrip(_)
RStrip(s) ==
    IF s # << >> /\ IsSpace(s[Len(s)]) THEN RStrip(SubSeq(s, 1, Len(s) - 1)) ELSE s

\* str.strip()
Strip(s) == RStrip(LStrip(s))

UpperLetters == <<"A", "B", "C", "D", "E", "F", "G", "H", "I", "J", "K", "L", "M", "N", "O", "P", "Q", "R", "S", "T", "U", "V", "W", "X", "Y", "Z">>

LowerLetters == <<"a", "b", "c", "d", "e", "f", "g", "h", "i", "j", "k", "l", "m", "n", "o", "p", "q", "r", "s", "t", "u", "v", "w", "x", "y", "z">>

LowerChar(c) ==
    IF \E i \in 1..Len(UpperLetters) : UpperLetters[i] = c
    THEN LowerLetters[CHOOSE i \in 1..Len(UpperLetters) : UpperLetters[i] = c]
    ELSE c

\* str.lower()
Lower(s) == [i \in 1..Len(s) |-> LowerChar(s[i])]

\* str.startswith(p)
StartsWith(s, p) == Len(s) >= Len(p) /\ SubSeq(s, 1, Len(p)) = p

RECURSIVE SplitFrom(_, _, _)
SplitFrom(s, cur, acc) ==
    IF s = << >>
    THEN IF cur = << >> THEN acc ELSE Append(acc, cur)
    ELSE IF IsSpace(Head(s))
         THEN SplitFrom(Tail(s), << >>, IF cur = << >> THEN acc ELSE Append(acc, cur))
         ELSE SplitFrom(Tail(s), Append(cur, Head(s)), acc)

\* str.split(): the maximal runs of non-whitespace characters
Split(s) == SplitFrom(s, << >>, << >>)

Digits == <<"0", "1", "2", "3", "4", "5", "6", "7", "8", "9">>

IsDigit(c) == \E i \in 1..Len(Digits) : Digits[i] = c

DigitValue(c) == (CHOOSE i \in 1..Len(Digits) : Digits[i] = c) - 1

IntBody(tok) == IF tok # << >> /\ Head(tok) \in {"+", "-"} THEN Tail(tok) ELSE tok

\* int(tok) does not raise ValueError: an optional sign and at least one digit
IntParses(tok) ==
    /\ IntBody(tok) # << >>
    /\ \A i \in 1..Len(IntBody(tok)) : IsDigit(IntBody(tok)[i])

RECURSIVE Magnitude(_)
Magnitude(ds) ==
    IF ds = << >> THEN 0
    ELSE 10 * Magnitude(SubSeq(ds, 1, Len(ds) - 1)) + DigitValue(ds[Len(ds)])

\* int() that drops the sign
IntValue_Unsigned(tok) == Magnitude(IntBody(tok))

\* int(tok), where it parses
IntValue(tok) ==
    IF Head(tok) = "-" THEN 0 - Magnitude(IntBody(tok)) ELSE Magnitude(IntBody(tok))

(***************************************************************************)
(* The action table, in the order of the dict literal.                     *)
(***************************************************************************)
NLE_ACTIONS ==
    << [name |-> <<"m", "o", "r", "e">>,          index |-> 0],
       [name |-> <<"w">>,             index |-> 1],
       [name |-> <<"d">>,             index |-> 2],
       [name |-> <<"s">>,             index |-> 3],
       [name |-> <<"a">>,             index |-> 4],
       [name |-> <<"e">>,             index |-> 5],
       [name |-> <<"c">>,             index |-> 6],
       [name |-> <<"z">>,             index |-> 7],
       [name |-> <<"q">>,             index |-> 8],
       [name |-> <<"f", "a", "r", "n", "o", "r", "t", "h">>,      index |-> 9],
       [name |-> <<"f", "a", "r", "e", "a", "s", "t">>,       index |-> 10],
       [name |-> <<"f", "a", "r", "s", "o", "u", "t", "h">>,      index |-> 11],
       [name |-> <<"f", "a", "r", "w", "e", "s", "t">>,       index |-> 12],
       [name |-> <<"f", "a", "r", "n", "o", "r", "t", "h", "e", "a", "s", "t">>,  index |-> 13],
       [name |-> <<"f", "a", "r", "s", "o", "u", "t", "h", "e", "a", "s", "t">>,  index |-> 14],
       [name |-> <<"f", "a", "r", "s", "o", "u", "t", "h", "w", "e", "s", "t">>,  index |-> 15],
       [name |-> <<"f", "a", "r", "n", "o", "r", "t", "h", "w", "e", "s", "t">>,  index |-> 16],
       [name |-> <<"u", "p">>,            index |-> 17],
       [name |-> <<"d", "o", "w", "n">>,          index |-> 18],
       [name |-> <<"w", "a", "i", "t">>,          index |-> 19],
       [name |-> <<"k", "i", "c", "k">>,          index |-> 20],
       [name |-> <<"e", "a", "t">>,           index |-> 21],
       [name |-> <<"s", "e", "a", "r", "c", "h">>,        index |-> 22] >>

\* action_str in NLE_ACTIONS
InTable(k) == \E i \in 1..Len(NLE_ACTIONS) : NLE_ACTIONS[i].name = k

\* NLE_ACTIONS[action_str]: a dict literal keeps the last entry of a repeated key
TableIndex(k) ==
    LET hits == {i \in 1..Len(NLE_ACTIONS) : NLE_ACTIONS[i].name = k}
    IN  NLE_ACTIONS[CHOOSE i \in hits : \A j \in hits : j <= i].index

(***************************************************************************)
(* The command dispatch of the loop body: the if / elif chain.             *)
(***************************************************************************)
\* action_str = input().strip().lower()
Normalize(raw) == Lower(Strip(raw))

\* the second whitespace-separated field parses as an int (no ValueError, no IndexError)
IndexParses(s) == Len(Split(s)) >= 2 /\ IntParses(Split(s)[2])

Dispatch(s) ==
    IF s = <<"q", "u", "i", "t">> THEN "quit"
    ELSE IF s = <<"h", "e", "l", "p">> THEN "help"
    ELSE IF s = <<"a", "c", "t", "i", "o", "n", "l", "i", "s", "t">> THEN "actionlist"
    ELSE IF StartsWith(s, <<"a", "c", "t", "i", "o", "n", " ">>)
         THEN IF IndexParses(s) THEN "index" ELSE "bad_index"
    ELSE IF InTable(s) THEN "named"
    ELSE "unknown"

\* a table lookup that is off by one (1-based indices)
Resolve_Shifted(s) ==
    IF StartsWith(s, <<"a", "c", "t", "i", "o", "n", " ">>) THEN IntValue(Split(s)[2]) ELSE TableIndex(s) + 1

\* the action index the dispatch resolves a stepping command to
Resolve(s) ==
    IF StartsWith(s, <<"a", "c", "t", "i", "o", "n", " ">>) THEN IntValue(Split(s)[2]) ELSE TableIndex(s)

(***************************************************************************)
(* Rendering of the tty_chars grid: a grid is its shape and its cells.     *)
(***************************************************************************)
CharCodes == <<32, 46, 64, 65, 66, 67, 68, 69, 70>>

CharGlyphs == <<" ", ".", "@", "A", "B", "C", "D", "E", "F">>

\* chr(code)
Chr(code) == CharGlyphs[CHOOSE i \in 1..Len(CharCodes) : CharCodes[i] = code]

RECURSIVE AsciiRow(_, _, _)
\* the inner loop of display_game_state: columns j..cols-1 of row i
AsciiRow(tty_chars, i, j) ==
    IF j > tty_chars.cols THEN << >>
    ELSE <<Chr(tty_chars.cells[i][j])>> \o AsciiRow(tty_chars, i, j + 1)

RECURSIVE AsciiRows(_, _)
AsciiRows(tty_chars, i) ==
    IF i > tty_chars.rows THEN << >>
    ELSE AsciiRow(tty_chars, i, 1) \o <<"\n">> \o AsciiRows(tty_chars, i + 1)

\* ascii_map of display_game_state
AsciiMap(tty_chars) == AsciiRows(tty_chars, 1)

RECURSIVE ObsRow(_, _, _)
\* the inner loop of the loop body's rendering, built by appending
ObsRow(tty_chars, i, acc) ==
    IF Len(acc) >= tty_chars.cols THEN acc
    ELSE ObsRow(tty_chars, i, Append(acc, Chr(tty_chars.cells[i][Len(acc) + 1])))

RECURSIVE ObsRows_Separated(_, _, _)
\* rows joined by newlines, none after the last row
ObsRows_Separated(tty_chars, i, acc) ==
    IF i > tty_chars.rows THEN acc
    ELSE ObsRows_Separated(tty_chars, i + 1,
             (IF i > 1 THEN Append(acc, "\n") ELSE acc) \o ObsRow(tty_chars, i, << >>))

RECURSIVE ObsRows_SkipEmpty(_, _, _)
\* a renderer that ends a row with a newline only when the row has cells
ObsRows_SkipEmpty(tty_chars, i, acc) ==
    IF i > tty_chars.rows THEN acc
    ELSE ObsRows_SkipEmpty(tty_chars, i + 1,
             IF tty_chars.cols = 0 THEN acc
             ELSE Append(acc \o ObsRow(tty_chars, i, << >>), "\n"))

RECURSIVE ObsRows(_, _, _)
ObsRows(tty_chars, i, acc) ==
    IF i > tty_chars.rows THEN acc
    ELSE ObsRows(tty_chars, i + 1, Append(acc \o ObsRow(tty_chars, i, << >>), "\n"))

\* obs_str of the loop body: str(next_obs), replaced by the rendering when
\* the snapshot has a tty_chars entry
ObsStr(next_obs) ==
    IF next_obs.has_tty THEN ObsRows(next_obs.tty_chars, 1, << >>) ELSE next_obs.repr

(***************************************************************************)
(* What the outside world can answer.                                      *)
(***************************************************************************)
\* the snapshots the environment hands out: an ABC / DEF grid, a one-cell
\* grid, an empty grid, and a snapshot without a tty_chars entry
GridABCDEF == [rows |-> 2, cols |-> 3, cells |-> <<<<65, 66, 67>>, <<68, 69, 70>>>>]

GridAt == [rows |-> 1, cols |-> 1, cells |-> <<<<64>>>>]

GridEmpty == [rows |-> 0, cols |-> 0, cells |-> << >>]

\* a grid of two rows and no columns (shape (2, 0))
GridNoCols == [rows |-> 2, cols |-> 0, cells |-> << << >>, << >> >>]

ObsABCDEF == [has_tty |-> TRUE, tty_chars |-> GridABCDEF, repr |-> <<"{", "t", "t", "y", "}">>]

ObsAt == [has_tty |-> TRUE, tty_chars |-> GridAt, repr |-> <<"{", "t", "t", "y", "}">>]

ObsEmpty == [has_tty |-> TRUE, tty_chars |-> GridEmpty, repr |-> <<"{", "t", "t", "y", "}">>]

ObsNoCols == [has_tty |-> TRUE, tty_chars |-> GridNoCols, repr |-> <<"{", "t", "t", "y", "}">>]

ObsNoTty == [has_tty |-> FALSE, tty_chars |-> GridEmpty, repr |-> <<"{", "}">>]

\* env.reset() returns one of these
ResetObservations == {ObsAt, ObsNoTty}

\* env.step(action) returns (next_obs, reward, done_flag, info) with one of these
StepOutcomes ==
    { [obs |-> ObsABCDEF, reward |-> 2,  done |-> FALSE],
      [obs |-> ObsNoTty,  reward |-> -1, done |-> TRUE],
      [obs |-> ObsEmpty,  reward |-> 1,  done |-> TRUE],
      [obs |-> ObsNoCols, reward |-> 0,  done |-> TRUE] }

\* what the operator types at the prompt, before strip() and lower()
Inputs ==
    { <<"q", "u", "i", "t">>, <<" ", "Q", "u", "i", "t", " ">>, <<"h", "e", "l", "p">>, <<"a", "c", "t", "i", "o", "n", "l", "i", "s", "t">>,
      <<" ", "W", "\t">>, <<"n", "o", "r", "t", "h">>, << >>,
      <<"a", "c", "t", "i", "o", "n", " ", "1", "7">>, <<"A", "C", "T", "I", "O", "N", " ", " ", "2", "3", " ", "x">>, <<"a", "c", "t", "i", "o", "n", " ", "-", "1">>,
      <<"a", "c", "t", "i", "o", "n", " ", "a", "b", "c">>, <<"a", "c", "t", "i", "o", "n">>, <<"a", "c", "t", "i", "o", "n", " ", "1", ".", "5">> }

\* the values of --seed: absent, or an explicit seed (0 is a seed, not an absence)
SeedArgs == {<< >>, <<0>>}

\* int(time.time() * 1000) when the episode starts
ClockReadings == {1712345}

TaskName == "human_play"

CsvHeader == <<"Step", "Action", "Action Index", "Observation", "Reward", "Done">>

(***************************************************************************)
(* GameTracker.                                                            *)
(***************************************************************************)
\* GameTracker.__init__
NewTracker ==
    [steps |-> 0, total_reward |-> 0, rewards |-> << >>, actions |-> << >>,
     last_observation |-> << >>]

\* an add_step that sets the count of a repeated action back to 1
add_step_Resets(t, act, reward, observation) ==
    [steps |-> t.steps + 1,
     total_reward |-> t.total_reward + reward,
     rewards |-> Append(t.rewards, reward),
     actions |-> [k \in DOMAIN t.actions \cup {act} |->
                     IF k = act THEN 1 ELSE t.actions[k]],
     last_observation |-> <<observation>>]

\* GameTracker.add_step(action, reward, observation); the loop always passes
\* an observation
add_step(t, act, reward, observation) ==
    [steps |-> t.steps + 1,
     total_reward |-> t.total_reward + reward,
     rewards |-> Append(t.rewards, reward),
     actions |-> [k \in DOMAIN t.actions \cup {act} |->
                     IF k = act
                     THEN IF act \in DOMAIN t.actions THEN t.actions[act] + 1 ELSE 1
                     ELSE t.actions[k]],
     last_observation |-> <<observation>>]

Max(a, b) == IF a >= b THEN a ELSE b

\* GameTracker.get_stats(); the quotient total_reward / max(1, steps) is kept
\* as the pair <<numerator, denominator>>
get_stats(t) ==
    [steps |-> t.steps,
     total_reward |-> t.total_reward,
     mean_reward |-> <<t.total_reward, Max(1, t.steps)>>,
     actions |-> t.actions]

\* dict.get(key, default)
Get(d, key, default) == IF key \in DOMAIN d THEN d[key] ELSE default

\* dict.update
Update(d, e) ==
    [k \in DOMAIN d \cup DOMAIN e |-> IF k \in DOMAIN e THEN e[k] ELSE d[k]]

\* the modulus of the time-derived seed
SeedModulus == 10000

\* a seed taken from the clock whatever the caller passed
get_unique_seed_AlwaysClock(seed_arg, now_ms) == now_ms % SeedModulus

\* get_unique_seed(seed)
get_unique_seed(seed_arg, now_ms) ==
    IF seed_arg # << >> THEN seed_arg[1] ELSE now_ms % SeedModulus

(***************************************************************************)
(* train_textworld.py: the model-driven episode loop.                      *)
(***************************************************************************)
\* register_game(game_file, max_episode_steps=50): the environment reports
\* done at the latest after this many steps
max_episode_steps == 50

InfosFull ==
    [admissible_commands |-> <<"go north", "take key">>, last_feedback |-> "You see a key."]

\* infos without the optional entries
InfosBare == << >>

\* env.reset() returns (obs, infos) with one of these
TwResets == { [obs |-> "start", infos |-> InfosFull], [obs |-> "start", infos |-> InfosBare] }

\* env.step(action) returns (obs, score, done, infos) with one of these; the
\* step limit turns done on
TwOutcomes ==
    { [obs |-> "room", score |-> 0, done |-> FALSE, infos |-> InfosFull],
      [obs |-> "hall", score |-> 1, done |-> FALSE, infos |-> InfosBare],
      [obs |-> "end",  score |-> 2, done |-> TRUE,  infos |-> InfosFull] }

\* response.choices[0].message.content: what the model answers
Completions == { <<"g", "o", " ", "n", "o", "r", "t", "h">>, <<" ", "T", "a", "k", "e", " ", "K", "e", "y", "\n">> }

\* build_prompt(observation, feedback, valid_actions)
build_prompt(observation, feedback, valid_actions) ==
    << [role |-> "system",
        content |-> <<"You are an expert text-game player. Choose the best next action.">>],
       [role |-> "user",
        content |-> <<"Observation:\n", observation, "\n\nAvailable commands:\n",
                      valid_actions, "\n\nPrevious feedback:\n", feedback,
                      "\n\nWhich action do you take? Please output exactly one command.">>] >>

\* the script is not the one that runs
TwIdle ==
    [pc |-> "idle", obs |-> "", infos |-> << >>, feedback |-> "", done |-> FALSE,
     messages |-> << >>, completion |-> << >>, action |-> << >>, score |-> 0,
     env |-> "absent", envSteps |-> 0, envGave |-> << >>, requests |-> 0,
     stepArgs |-> << >>]

\* lines 7-14: the environment is registered and made, the client created
TwStart == [TwIdle EXCEPT !.pc = "reset", !.env = "open"]

\* lines 33-35: env.reset(), feedback = "", done = False
TwReset ==
    /\ tw.pc = "reset"
    /\ \E r \in TwResets :
          tw' = [tw EXCEPT !.obs = r.obs, !.infos = r.infos, !.feedback = "",
                           !.done = FALSE, !.envGave = <<r>>, !.pc = "loop"]
    /\ UNCHANGED hvars

\* lines 37-45: the while condition holds; the state is rendered, the
\* admissible commands are read from infos and the prompt is built
TwWhileEnter ==
    /\ tw.pc = "loop"
    /\ ~tw.done
    /\ tw' = [tw EXCEPT
                 !.messages = build_prompt(tw.obs, tw.feedback,
                                           Get(tw.infos, "admissible_commands", << >>)),
                 !.pc = "ask"]
    /\ UNCHANGED hvars

\* a completion that is lower-cased on the way to the environment
TwComplete_Lowered ==
    /\ tw.pc = "ask"
    /\ \E c \in Completions :
          tw' = [tw EXCEPT !.completion = c, !.action = Lower(Strip(c)),
                           !.requests = @ + 1, !.pc = "step"]
    /\ UNCHANGED hvars

\* lines 46-52: the completion is requested and arrives; action is its
\* content, stripped
TwComplete ==
    /\ tw.pc = "ask"
    /\ \E c \in Completions :
          tw' = [tw EXCEPT !.completion = c, !.action = Strip(c),
                           !.requests = @ + 1, !.pc = "step"]
    /\ UNCHANGED hvars

\* lines 46-52: the request raises (nothing catches it): the script dies
\* with the environment open
TwCompleteRaises ==
    /\ tw.pc = "ask"
    /\ tw' = [tw EXCEPT !.requests = @ + 1, !.pc = "crashed"]
    /\ UNCHANGED hvars

\* lines 55-59: env.step(action) returns; obs, done, infos and feedback are
\* replaced
TwStep ==
    /\ tw.pc = "step"
    /\ \E o \in TwOutcomes :
          LET out == [o EXCEPT !.done = o.done \/ tw.envSteps + 1 >= max_episode_steps]
          IN  tw' = [tw EXCEPT !.obs = out.obs, !.score = out.score, !.done = out.done,
                               !.infos = out.infos,
                               !.feedback = Get(out.infos, "last_feedback", ""),
                               !.envSteps = @ + 1, !.envGave = <<out>>,
                               !.stepArgs = <<tw.action>>, !.pc = "loop"]
    /\ UNCHANGED hvars

\* line 55: env.step raises (nothing catches it): the script dies
TwStepRaises ==
    /\ tw.pc = "step"
    /\ tw' = [tw EXCEPT !.stepArgs = <<tw.action>>, !.pc = "crashed"]
    /\ UNCHANGED hvars

\* lines 37, 61-63: the while condition fails; the environment is closed
TwWhileExit ==
    /\ tw.pc = "loop"
    /\ tw.done
    /\ tw' = [tw EXCEPT !.env = "closed", !.pc = "closed"]
    /\ UNCHANGED hvars

(***************************************************************************)
(* run_human_episode.                                                      *)
(***************************************************************************)
\* the entry point before run_human_episode is back: nothing printed yet
MainRunning == [state |-> "running", score |-> << >>, trace |-> FALSE, status |-> 0]

\* input() reads from a terminal: the operator can type anything, for ever
Tty == [tty |-> TRUE, lines |-> << >>, pos |-> 1]

\* the locals and files of run_human_episode before it starts
Fresh ==
    /\ seed = 0
    /\ episode_log = << >>
    /\ tracker = NewTracker
    /\ env = "absent"
    /\ stepCalled = FALSE
    /\ applied = 0
    /\ obs = ObsNoTty
    /\ done = FALSE
    /\ step = 0
    /\ episode_return = 0
    /\ csv = [exists |-> FALSE, rows |-> << >>]
    /\ debug = {}
    /\ summary_file = << >>
    /\ result = << >>
    /\ typed = << >>
    /\ action_str = << >>
    /\ action = 0
    /\ screen = << >>
    /\ last = "none"
    /\ term = ""

Init ==
    /\ \/ /\ pc = "start"
          /\ args \in [max_steps : 0..MaxSteps, seed : SeedArgs, now_ms : ClockReadings]
          /\ tw = TwIdle
       \/ /\ pc = "idle"
          /\ args = [max_steps |-> 0, seed |-> << >>, now_ms |-> 0]
          /\ tw = TwStart
    /\ Fresh
    /\ main = MainRunning
    /\ stdin = Tty
    /\ earlier = << >>

\* lines 207-228: the seed is resolved, the episode directory and the log
\* handler are set up, episode_log and the tracker are created
Setup ==
    /\ pc = "start"
    /\ seed' = get_unique_seed(args.seed, args.now_ms)
    /\ episode_log' = [task |-> TaskName, seed |-> seed', human_player |-> TRUE]
    /\ tracker' = NewTracker
    /\ pc' = "create"
    /\ UNCHANGED <<earlier, stdin, tw, main, args, env, stepCalled, applied, obs, done, step, episode_return, csv, debug,
                   summary_file, result, typed, action_str, action, screen, last, term>>

\* lines 230-232: create_nethack_env returns the environment
CreateEnvOk ==
    /\ pc = "create"
    /\ env' = "open"
    /\ pc' = "reset"
    /\ UNCHANGED <<earlier, stdin, tw, main, args, seed, episode_log, tracker, stepCalled, applied, obs, done, step,
                   episode_return, csv, debug, summary_file, result, typed,
                   action_str, action, screen, last, term>>

\* lines 110-130, 234-236: gym.make raises (no environment exists), or
\* env.seed raises after gym.make made one; the error record is returned
CreateEnvRaises ==
    /\ pc = "create"
    /\ \E made \in BOOLEAN : env' = IF made THEN "open" ELSE "absent"
    /\ result' = <<[error |-> "create failed", task |-> TaskName]>>
    /\ last' = "setup_failed"
    /\ pc' = "returned"
    /\ UNCHANGED <<earlier, stdin, tw, main, args, seed, episode_log, tracker, stepCalled, applied, obs, done, step,
                   episode_return, csv, debug, summary_file, typed, action_str,
                   action, screen, term>>

\* lines 238-240: env.reset() returns the initial snapshot
ResetOk ==
    /\ pc = "reset"
    /\ \E o \in ResetObservations : obs' = o
    /\ pc' = "open"
    /\ UNCHANGED <<earlier, stdin, tw, main, args, seed, episode_log, tracker, env, stepCalled, applied, done, step,
                   episode_return, csv, debug, summary_file, result, typed,
                   action_str, action, screen, last, term>>

\* a reset failure that is logged and then ignored
ResetRaises_Swallowed ==
    /\ pc = "reset"
    /\ last' = "setup_failed"
    /\ pc' = "open"
    /\ UNCHANGED <<earlier, stdin, tw, main, args, seed, episode_log, tracker, env, stepCalled, applied, obs, done,
                   step, episode_return, csv, debug, summary_file, result, typed,
                   action_str, action, screen, term>>

\* lines 241-243: env.reset() raises; the error record is returned
ResetRaises ==
    /\ pc = "reset"
    /\ result' = <<[error |-> "reset failed", task |-> TaskName]>>
    /\ last' = "setup_failed"
    /\ pc' = "returned"
    /\ UNCHANGED <<earlier, stdin, tw, main, args, seed, episode_log, tracker, env, stepCalled, applied, obs, done, step,
                   episode_return, csv, debug, summary_file, typed, action_str,
                   action, screen, term>>

\* lines 245-251: the trajectory file is opened, the writer made, the header
\* row written, and the loop's locals initialised
OpenCsvOk ==
    /\ pc = "open"
    /\ csv' = [exists |-> TRUE, rows |-> <<CsvHeader>>]
    /\ done' = FALSE
    /\ step' = 0
    /\ episode_return' = 0
    /\ pc' = "loop"
    /\ UNCHANGED <<earlier, stdin, tw, main, args, seed, episode_log, tracker, env, stepCalled, applied, obs, debug,
                   summary_file, result, typed, action_str, action, screen, last, term>>

\* lines 245-247: open() raises (no file), or csv.writer / the header's
\* writerow raises inside the with block (an empty file is left); nothing
\* catches it and the exception leaves run_human_episode.  csv.writer raises
\* TypeError when escapechar is not one character; the literal of line 246
\* is one character (U+02D8) in one reading of its bytes and two in another,
\* so both outcomes are kept.
OpenCsvRaises ==
    /\ pc = "open"
    /\ \E created \in BOOLEAN : csv' = [exists |-> created, rows |-> << >>]
    /\ last' = "raised"
    /\ pc' = "raised"
    /\ UNCHANGED <<earlier, stdin, tw, main, args, seed, episode_log, tracker, env, stepCalled, applied, obs, done, step,
                   episode_return, debug, summary_file, result, typed, action_str,
                   action, screen, term>>

\* a while condition that admits one step too many (step <= max_steps)
WhileEnter_OffByOne ==
    /\ pc = "loop"
    /\ ~done /\ step <= args.max_steps
    /\ screen' = IF obs.has_tty THEN AsciiMap(obs.tty_chars) ELSE obs.repr
    /\ pc' = "prompt"
    /\ UNCHANGED <<earlier, stdin, tw, main, args, seed, episode_log, tracker, env, stepCalled, applied, obs, done,
                   step, episode_return, csv, debug, summary_file, result, typed,
                   action_str, action, last, term>>

\* a loop condition that leaves out `not done`
WhileEnter_IgnoresDone ==
    /\ pc = "loop"
    /\ step < args.max_steps
    /\ screen' = IF obs.has_tty THEN AsciiMap(obs.tty_chars) ELSE obs.repr
    /\ pc' = "prompt"
    /\ UNCHANGED <<earlier, stdin, tw, main, args, seed, episode_log, tracker, env, stepCalled, applied, obs, done,
                   step, episode_return, csv, debug, summary_file, result, typed,
                   action_str, action, last, term>>

\* lines 253-259: the while condition holds; the snapshot is displayed and
\* the prompt printed
WhileEnter ==
    /\ pc = "loop"
    /\ ~done /\ step < args.max_steps
    /\ screen' = IF obs.has_tty THEN AsciiMap(obs.tty_chars) ELSE obs.repr
    /\ pc' = "prompt"
    /\ UNCHANGED <<earlier, stdin, tw, main, args, seed, episode_log, tracker, env, stepCalled, applied, obs, done, step,
                   episode_return, csv, debug, summary_file, result, typed,
                   action_str, action, last, term>>

\* line 253: the while condition fails
WhileExit ==
    /\ pc = "loop"
    /\ ~(~done /\ step < args.max_steps)
    /\ term' = IF done THEN "ENVIRONMENT" ELSE "LIMIT"
    /\ pc' = "finalize"
    /\ UNCHANGED <<earlier, stdin, tw, main, args, seed, episode_log, tracker, env, stepCalled, applied, obs, done, step,
                   episode_return, csv, debug, summary_file, result, typed,
                   action_str, action, screen, last>>

\* line 260 for each line the operator can type: input().strip().lower()
Normalized == [raw \in Inputs |-> Normalize(raw)]

\* lines 262-284 for each line the operator can type: the branch taken
Dispatched == [raw \in Inputs |-> Dispatch(Normalized[raw])]

\* lines 273 and 282 for each line that resolves: the index it resolves to
Resolved ==
    [raw \in {r \in Inputs : Dispatched[r] \in {"index", "named"}} |->
        Resolve(Normalized[raw])]

\* line 260: input() returns raw: anything at a terminal, the next line of a
\* script
Offered(raw) ==
    stdin.tty \/ (stdin.pos <= Len(stdin.lines) /\ stdin.lines[stdin.pos] = raw)

\* line 260: the line read is gone from the script
Consumed == IF stdin.tty THEN stdin ELSE [stdin EXCEPT !.pos = @ + 1]

\* line 260, then the branch of the if / elif chain that `branch` names:
\* the locals every branch leaves alone
Read(raw, branch) ==
    /\ pc = "prompt"
    /\ Offered(raw)
    /\ stdin' = Consumed
    /\ Dispatched[raw] = branch
    /\ typed' = raw
    /\ action_str' = Normalized[raw]
    /\ UNCHANGED <<earlier, tw, main, args, seed, episode_log, tracker, env, stepCalled, applied, obs, done, step,
                   episode_return, csv, debug, summary_file, result, screen>>

\* lines 262-264
Quit ==
    \E raw \in Inputs :
        /\ Read(raw, "quit")
        /\ last' = "quit"
        /\ term' = "USER"
        /\ pc' = "finalize"
        /\ UNCHANGED action

\* lines 265-267
Help ==
    \E raw \in Inputs :
        /\ Read(raw, "help")
        /\ last' = "help"
        /\ pc' = "loop"
        /\ UNCHANGED <<action, term>>

\* lines 268-270
ActionList ==
    \E raw \in Inputs :
        /\ Read(raw, "actionlist")
        /\ last' = "actionlist"
        /\ pc' = "loop"
        /\ UNCHANGED <<action, term>>

\* lines 271-275: "action <num>" with a number
ActionIndex ==
    \E raw \in Inputs :
        /\ Read(raw, "index")
        /\ action' = Resolved[raw]
        /\ last' = "resolved"
        /\ pc' = "step"
        /\ UNCHANGED term

\* lines 276-279: int() or the indexing raises
ActionIndexBad ==
    \E raw \in Inputs :
        /\ Read(raw, "bad_index")
        /\ last' = "bad_index"
        /\ pc' = "loop"
        /\ UNCHANGED <<action, term>>

\* lines 281-283
NamedCommand ==
    \E raw \in Inputs :
        /\ Read(raw, "named")
        /\ action' = Resolved[raw]
        /\ last' = "resolved"
        /\ pc' = "step"
        /\ UNCHANGED term

\* an unknown command that falls through to the step with the old action
UnknownCommand_Steps ==
    \E raw \in Inputs :
        /\ Read(raw, "unknown")
        /\ last' = "unknown"
        /\ pc' = "step"
        /\ UNCHANGED <<action, term>>

\* lines 284-287
UnknownCommand ==
    \E raw \in Inputs :
        /\ Read(raw, "unknown")
        /\ last' = "unknown"
        /\ pc' = "loop"
        /\ UNCHANGED <<action, term>>

\* a failed attempt that still advances the step counter
StepRaises_Counted ==
    /\ pc = "step"
    /\ stepCalled' = TRUE
    /\ step' = step + 1
    /\ last' = "step_failed"
    /\ pc' = "loop"
    /\ UNCHANGED <<earlier, stdin, tw, main, args, seed, episode_log, tracker, env, applied, obs, done,
                   episode_return, csv, debug, summary_file, result, typed,
                   action_str, action, screen, term>>

\* a failed step that ends the loop
StepRaises_Breaks ==
    /\ pc = "step"
    /\ stepCalled' = TRUE
    /\ last' = "step_failed"
    /\ pc' = "finalize"
    /\ UNCHANGED <<earlier, stdin, tw, main, args, seed, episode_log, tracker, env, applied, obs, done, step,
                   episode_return, csv, debug, summary_file, result, typed,
                   action_str, action, screen, term>>

\* lines 289-291, 333-337: env.step raises; the handler reports it and the
\* loop goes round again
StepRaises ==
    /\ pc = "step"
    /\ stepCalled' = TRUE
    /\ last' = "step_failed"
    /\ pc' = "loop"
    /\ UNCHANGED <<earlier, stdin, tw, main, args, seed, episode_log, tracker, env, applied, obs, done, step,
                   episode_return, csv, debug, summary_file, result, typed,
                   action_str, action, screen, term>>

\* a recording that numbers the rows from 1, as the snapshot files are
Record_OneBased(out) ==
    /\ stepCalled' = TRUE
    /\ applied' = applied + 1
    /\ csv' = [csv EXCEPT !.rows =
                 Append(@, <<step + 1, action_str, action, ObsStr(out.obs), out.reward,
                             out.done>>)]
    /\ tracker' = add_step(tracker, action_str, out.reward, out.obs)
    /\ episode_return' = episode_return + out.reward
    /\ obs' = out.obs
    /\ done' = out.done
    /\ step' = step + 1
    /\ UNCHANGED <<earlier, stdin, tw, main, args, seed, episode_log, env, summary_file, result, typed,
                   action_str, action, screen, term>>

\* a recording that assigns the reward to the return instead of adding it
Record_Assigns(out) ==
    /\ stepCalled' = TRUE
    /\ applied' = applied + 1
    /\ csv' = [csv EXCEPT !.rows =
                 Append(@, <<step, action_str, action, ObsStr(out.obs), out.reward,
                             out.done>>)]
    /\ tracker' = add_step(tracker, action_str, out.reward, out.obs)
    /\ episode_return' = out.reward
    /\ obs' = out.obs
    /\ done' = out.done
    /\ step' = step + 1
    /\ UNCHANGED <<earlier, stdin, tw, main, args, seed, episode_log, env, summary_file, result, typed,
                   action_str, action, screen, term>>

\* lines 291-317: env.step returned `out`; the row is written, the tracker
\* and the locals updated
Record(out) ==
    /\ stepCalled' = TRUE
    /\ applied' = applied + 1
    /\ csv' = [csv EXCEPT !.rows =
                 Append(@, <<step, action_str, action, ObsStr(out.obs), out.reward,
                             out.done>>)]
    /\ tracker' = add_step(tracker, action_str, out.reward, out.obs)
    /\ episode_return' = episode_return + out.reward
    /\ obs' = out.obs
    /\ done' = out.done
    /\ step' = step + 1
    /\ UNCHANGED <<earlier, stdin, tw, main, args, seed, episode_log, env, summary_file, result, typed,
                   action_str, action, screen, term>>

\* lines 291-331: the step succeeds and its snapshot file is written
StepOk ==
    /\ pc = "step"
    /\ \E out \in StepOutcomes : Record(out)
    /\ debug' = debug \cup {step'}
    /\ last' = "step_ok"
    /\ pc' = "loop"

\* a snapshot failure whose handler keeps showing the old snapshot
StepOkDumpRaises_Stale ==
    /\ pc = "step"
    /\ \E out \in StepOutcomes :
          /\ stepCalled' = TRUE
          /\ applied' = applied + 1
          /\ csv' = [csv EXCEPT !.rows =
                       Append(@, <<step, action_str, action, ObsStr(out.obs),
                                   out.reward, out.done>>)]
          /\ tracker' = add_step(tracker, action_str, out.reward, out.obs)
          /\ episode_return' = episode_return + out.reward
          /\ obs' = obs
          /\ done' = out.done
          /\ step' = step + 1
    /\ debug' = debug
    /\ last' = "dump_failed"
    /\ pc' = "loop"
    /\ UNCHANGED <<earlier, stdin, tw, main, args, seed, episode_log, env, summary_file, result, typed,
                   action_str, action, screen, term>>

\* lines 291-328, 333-337: the step succeeds and is recorded, then writing
\* the snapshot file raises (mkdir, open or json.dump); the handler reports it
StepOkDumpRaises ==
    /\ pc = "step"
    /\ \E out \in StepOutcomes : Record(out)
    /\ debug' = debug
    /\ last' = "dump_failed"
    /\ pc' = "loop"

\* lines 339-351: the summary is completed and written, the environment
\* closed, and the summary returned
Finalize ==
    /\ pc = "finalize"
    /\ episode_log' = Update(Update(episode_log, get_stats(tracker)),
                             [episode_return |-> episode_return, num_steps |-> step])
    /\ summary_file' = <<episode_log'>>
    /\ env' = "closed"
    /\ result' = <<episode_log'>>
    /\ pc' = "returned"
    /\ UNCHANGED <<earlier, stdin, tw, main, args, seed, tracker, stepCalled, applied, obs, done, step, episode_return,
                   csv, debug, typed, action_str, action, screen, last, term>>

\* lines 373-383: run_human_episode returned; the score line is printed and
\* the script runs off its end (exit status 0)
MainCompleted ==
    /\ pc = "returned"
    /\ main.state = "running"
    /\ main' = [state |-> "exited", score |-> <<Get(result[1], "episode_return", 0)>>,
                trace |-> FALSE, status |-> 0]
    /\ UNCHANGED <<earlier, stdin, tw, pc, args, seed, episode_log, tracker, env, stepCalled, applied, obs,
                   done, step, episode_return, csv, debug, summary_file, result, typed,
                   action_str, action, screen, last, term>>

\* lines 384-387: an exception left run_human_episode; it is logged, the
\* traceback printed, and the script runs off its end (exit status 0)
MainFailed ==
    /\ pc = "raised"
    /\ main.state = "running"
    /\ main' = [state |-> "exited", score |-> << >>, trace |-> TRUE, status |-> 0]
    /\ UNCHANGED <<earlier, stdin, tw, pc, args, seed, episode_log, tracker, env, stepCalled, applied, obs,
                   done, step, episode_return, csv, debug, summary_file, result, typed,
                   action_str, action, screen, last, term>>

Next ==
    \/ Setup
    \/ CreateEnvOk
    \/ CreateEnvRaises
    \/ ResetOk
    \/ ResetRaises
    \/ OpenCsvOk
    \/ OpenCsvRaises
    \/ WhileEnter
    \/ WhileExit
    \/ Quit
    \/ Help
    \/ ActionList
    \/ ActionIndex
    \/ ActionIndexBad
    \/ NamedCommand
    \/ UnknownCommand
    \/ StepRaises
    \/ StepOk
    \/ StepOkDumpRaises
    \/ Finalize
    \/ MainCompleted
    \/ MainFailed
    \/ TwReset
    \/ TwWhileEnter
    \/ TwComplete
    \/ TwCompleteRaises
    \/ TwStep
    \/ TwStepRaises
    \/ TwWhileExit

Spec == Init /\ [][Next]_vars

\* the running script is never suspended for ever: whenever it can take a
\* step (the operator answers every prompt, the model and the environment
\* answer every call) it eventually takes one
FairSpec == Spec /\ WF_vars(Next)

(***************************************************************************)
(* Two runs of run_human_episode with the same arguments, the same lines   *)
(* on standard input and a deterministic stub environment.                 *)
(***************************************************************************)
\* the longest script of input lines
MaxInputs == 3

\* the lines a script is made of
ScriptLines == { <<"q", "u", "i", "t">>, <<" ", "W", "\t">>, <<"n", "o", "r", "t", "h">>, <<"a", "c", "t", "i", "o", "n", " ", "1", "7">> }

Scripts == UNION { [1..n -> ScriptLines] : n \in 0..MaxInputs }

\* the clock reading of the second run
Later(now_ms) == now_ms + 655

\* the stub's env.reset(): a function of the seed it was given
StubReset(sd) == IF sd % 2 = 0 THEN ObsAt ELSE ObsNoTty

\* the stub's env.step(a) raises: a function of the seed, the number of
\* steps applied and the action
StubRaises(sd, n, a) == (sd + n + a) % 7 = 3

\* what the stub's env.step(a) returns: a function of the same
StubOutcome(sd, n, a) ==
    LET k == (sd + n + a) % 3
    IN  IF k = 0 THEN [obs |-> ObsEmpty,  reward |-> 1,  done |-> TRUE]
        ELSE IF k = 1 THEN [obs |-> ObsABCDEF, reward |-> 2,  done |-> FALSE]
        ELSE [obs |-> ObsNoTty,  reward |-> -1, done |-> TRUE]

\* the step returned s
Answered(s) ==
    /\ obs' = s.obs
    /\ done' = s.done
    /\ episode_return' = episode_return + s.reward

ReplayInit ==
    /\ pc = "start"
    /\ args \in [max_steps : 0..MaxSteps, seed : SeedArgs, now_ms : ClockReadings]
    /\ tw = TwIdle
    /\ Fresh
    /\ main = MainRunning
    /\ stdin \in [tty : {FALSE}, lines : Scripts, pos : {1}]
    /\ earlier = << >>

\* line 239 against the stub
StubResetOk == ResetOk /\ obs' = StubReset(seed)

\* line 291 against the stub: the step raises
StubStepRaises == StubRaises(seed, applied, action) /\ StepRaises

\* lines 291-331 against the stub
StubStepOk ==
    /\ ~StubRaises(seed, applied, action)
    /\ StepOk
    /\ Answered(StubOutcome(seed, applied, action))

\* lines 291-328, 333-337 against the stub: the snapshot file cannot be
\* written (this is the file system's doing, and may differ between runs)
StubStepOkDumpRaises ==
    /\ ~StubRaises(seed, applied, action)
    /\ StepOkDumpRaises
    /\ Answered(StubOutcome(seed, applied, action))

\* line 260: input() raises EOFError at the end of the script; nothing
\* catches it and the exception leaves run_human_episode
Eof ==
    /\ pc = "prompt"
    /\ ~stdin.tty
    /\ stdin.pos > Len(stdin.lines)
    /\ last' = "eof"
    /\ pc' = "raised"
    /\ UNCHANGED <<earlier, stdin, tw, main, args, seed, episode_log, tracker, env, stepCalled,
                   applied, obs, done, step, episode_return, csv, debug, summary_file,
                   result, typed, action_str, action, screen, term>>

\* the first run is over: its trajectory file stays on disk, and
\* run_human_episode is called again, later, with the same arguments and the
\* same script on standard input
Rerun ==
    /\ pc \in {"returned", "raised"}
    /\ earlier = << >>
    /\ earlier' = <<[csv |-> csv, seed |-> seed, last |-> last]>>
    /\ stdin' = [stdin EXCEPT !.pos = 1]
    /\ args' = [args EXCEPT !.now_ms = Later(@)]
    /\ pc' = "start"
    /\ seed' = 0
    /\ episode_log' = << >>
    /\ tracker' = NewTracker
    /\ env' = "absent"
    /\ stepCalled' = FALSE
    /\ applied' = 0
    /\ obs' = ObsNoTty
    /\ done' = FALSE
    /\ step' = 0
    /\ episode_return' = 0
    /\ csv' = [exists |-> FALSE, rows |-> << >>]
    /\ debug' = {}
    /\ summary_file' = << >>
    /\ result' = << >>
    /\ typed' = << >>
    /\ action_str' = << >>
    /\ action' = 0
    /\ screen' = << >>
    /\ last' = "none"
    /\ term' = ""
    /\ UNCHANGED <<tw, main>>

ReplayNext ==
    \/ Setup
    \/ CreateEnvOk
    \/ StubResetOk
    \/ OpenCsvOk
    \/ WhileEnter
    \/ WhileExit
    \/ Quit
    \/ ActionIndex
    \/ NamedCommand
    \/ UnknownCommand
    \/ Eof
    \/ StubStepRaises
    \/ StubStepOk
    \/ StubStepOkDumpRaises
    \/ Finalize
    \/ Rerun

ReplaySpec == ReplayInit /\ [][ReplayNext]_vars

(***************************************************************************)
(* Properties.                                                             *)
(***************************************************************************)
Terminal == {"returned", "raised"}

InLoop(p) == p \in {"loop", "prompt", "step"}

\* the data rows of the trajectory file: everything after the header
DataRows == IF Len(csv.rows) = 0 THEN << >> ELSE Tail(csv.rows)

RECURSIVE SumRewardColumn(_)
SumRewardColumn(rows) ==
    IF rows = << >> THEN 0 ELSE Head(rows)[5] + SumRewardColumn(Tail(rows))

\* the summary has been persisted
Persisted == pc = "returned" /\ summary_file # << >>

\* C1: when the episode has ended and its summary is persisted, the
\* trajectory file holds the header row and one data row per applied step
\* (N + 1 rows for N applied steps), and the summary's num_steps is N.
C1_RowsAndNumSteps ==
    Persisted =>
        /\ csv.exists
        /\ Len(csv.rows) = applied + 1
        /\ csv.rows[1] = CsvHeader
        /\ summary_file[1].num_steps = applied

\* an episode of two applied steps has ended and its summary is persisted
C1_Witness ==
    /\ Persisted
    /\ applied = 2
    /\ Len(csv.rows) = 3
    /\ summary_file[1].num_steps = 2

\* C2: when the episode has ended, the episode_return of the summary is the
\* sum of the Reward column over the data rows of the trajectory file.
C2_ReturnIsRewardSum ==
    Persisted => summary_file[1].episode_return = SumRewardColumn(DataRows)

\* a persisted episode of two rewarded steps with a non-zero return
C2_Witness ==
    /\ Persisted
    /\ Len(DataRows) = 2
    /\ DataRows[1][5] = 2
    /\ DataRows[2][5] = -1
    /\ summary_file[1].episode_return = 1

\* C3: whenever run_human_episode has ended, by returning or by an exception
\* leaving it, an environment that was created has been closed.
C3_EnvReleasedAtEveryExit == pc \in Terminal => env # "open"

\* C4: when env.step raises, no row is appended (the data rows are still
\* the steps applied before), nothing is returned, the loop goes round, its
\* condition still holds, and the next thing to happen is the prompt.
C4_FailedStepKeepsRunning ==
    [][ /\ (pc = "step" /\ last' = "step_failed") =>
              /\ csv' = csv
              /\ Len(DataRows) = applied
              /\ applied' = applied
              /\ result' = << >>
              /\ pc' = "loop"
              /\ ~done' /\ step' < args'.max_steps
        /\ (pc = "loop" /\ last = "step_failed") => pc' = "prompt"
      ]_vars

\* the second attempt failed after a first that succeeded, and the loop is
\* about to prompt again
C4_Witness ==
    /\ pc = "loop"
    /\ last = "step_failed"
    /\ applied = 1
    /\ Len(DataRows) = 1

C6_SetupFailureAborts ==
    last = "setup_failed" =>
        /\ pc = "returned"
        /\ ~stepCalled /\ applied = 0
        /\ ~csv.exists
        /\ summary_file = << >>
        /\ result # << >>
        /\ "error" \in DOMAIN result[1]
        /\ "num_steps" \notin DOMAIN result[1]

\* the reset of a created environment raised and the error record is back
C6_Witness ==
    /\ last = "setup_failed"
    /\ env = "open"
    /\ result = <<[error |-> "reset failed", task |-> TaskName]>>

\* the input, trimmed and lower-cased, is none of the commands the loop acts on
Unrecognized(raw) ==
    LET s == Lower(Strip(raw))
    IN  /\ s \notin {<<"q", "u", "i", "t">>, <<"h", "e", "l", "p">>, <<"a", "c", "t", "i", "o", "n", "l", "i", "s", "t">>}
        /\ ~(StartsWith(s, <<"a", "c", "t", "i", "o", "n", " ">>) /\ Len(Split(s)) >= 2 /\ IntParses(Split(s)[2]))
        /\ \A i \in 1..Len(NLE_ACTIONS) : NLE_ACTIONS[i].name # s

\* C7: an input that is no command makes the loop prompt again: env.step is
\* not called, no row is written and the step counter stays.
C7_UnknownReprompts ==
    [][ /\ (pc = "prompt" /\ pc' # "prompt" /\ Unrecognized(typed')) =>
              /\ pc' = "loop"
              /\ last' \in {"unknown", "bad_index"}
              /\ stepCalled' = stepCalled /\ applied' = applied
              /\ csv' = csv
              /\ step' = step /\ done' = done
              /\ ~done' /\ step' < args'.max_steps
        /\ (pc = "loop" /\ last \in {"unknown", "bad_index"}) => pc' = "prompt"
      ]_vars

\* "north" was typed after one applied step and the loop is about to prompt
C7_Witness ==
    /\ pc = "loop"
    /\ last = "unknown"
    /\ typed = <<"n", "o", "r", "t", "h">>
    /\ applied = 1

\* every key of the table, typed as it is, is dispatched as a named command
\* and resolved to the index registered for it, and no index is registered twice
TableResolvesAndIsInjective ==
    \A i \in 1..Len(NLE_ACTIONS) :
        /\ Dispatch(Normalize(NLE_ACTIONS[i].name)) = "named"
        /\ Resolve(Normalize(NLE_ACTIONS[i].name)) = NLE_ACTIONS[i].index
        /\ \A j \in 1..Len(NLE_ACTIONS) :
              i # j => /\ NLE_ACTIONS[i].index # NLE_ACTIONS[j].index
                       /\ NLE_ACTIONS[i].name # NLE_ACTIONS[j].name

\* C8: every key of the table dispatches as a named command and resolves
\* to its registered index; a typed key (trimmed, lower-cased) takes the loop
\* to env.step with that index; no two keys share an index.
C8_TableResolution ==
    /\ []TableResolvesAndIsInjective
    /\ [][ \A i \in 1..Len(NLE_ACTIONS) :
             (pc = "prompt" /\ pc' # "prompt" /\ Lower(Strip(typed')) = NLE_ACTIONS[i].name) =>
                 /\ pc' = "step"
                 /\ action' = NLE_ACTIONS[i].index
                 /\ action_str' = NLE_ACTIONS[i].name
         ]_vars
    /\ [](typed = <<" ", "W", "\t">> => action = 1)

\* " W<tab>" was typed and env.step is about to be called with index 1
C8_Witness ==
    /\ pc = "step"
    /\ typed = <<" ", "W", "\t">>
    /\ action_str = <<"w">>
    /\ action = 1

\* C9: "action n" takes the loop to env.step with index n, whether or not n
\* is an index of the table; "action x" with x no integer is rejected: the
\* loop prompts again and env.step is not called.
C9_ActionIndexForm ==
    [][ (pc = "prompt" /\ pc' # "prompt") =>
          /\ typed' = <<"a", "c", "t", "i", "o", "n", " ", "1", "7">> => (pc' = "step" /\ action' = 17)
          /\ typed' = <<"A", "C", "T", "I", "O", "N", " ", " ", "2", "3", " ", "x">> => (pc' = "step" /\ action' = 23)
          /\ typed' = <<"a", "c", "t", "i", "o", "n", " ", "-", "1">> => (pc' = "step" /\ action' = -1)
          /\ typed' \in {<<"a", "c", "t", "i", "o", "n", " ", "a", "b", "c">>, <<"a", "c", "t", "i", "o", "n", " ", "1", ".", "5">>, <<"a", "c", "t", "i", "o", "n">>} =>
                /\ pc' = "loop"
                /\ last' \in {"bad_index", "unknown"}
                /\ stepCalled' = stepCalled /\ applied' = applied
                /\ csv' = csv /\ step' = step /\ action' = action
                /\ ~done' /\ step' < args'.max_steps
      ]_vars

\* "action -1" was typed and env.step is about to be called with -1
C9_Witness ==
    /\ pc = "step"
    /\ typed = <<"a", "c", "t", "i", "o", "n", " ", "-", "1">>
    /\ action = -1

\* the largest grid shape of the rendering check
MaxRows == 2

MaxCols == 2

\* every grid of up to MaxRows x MaxCols cells over two codes, and ABC / DEF
Grids ==
    {GridABCDEF} \cup
    UNION { UNION { { [rows |-> r, cols |-> c, cells |-> m] :
                        m \in [1..r -> [1..c -> {65, 66}]] } :
                    c \in 0..MaxCols } :
            r \in 0..MaxRows }

\* str is the row-major rendering of grid g, one newline after every row
IsRowMajor(g, str) ==
    /\ Len(str) = g.rows * (g.cols + 1)
    /\ \A i \in 1..g.rows :
          /\ str[i * (g.cols + 1)] = "\n"
          /\ \A j \in 1..g.cols :
                str[(i - 1) * (g.cols + 1) + j] = Chr(g.cells[i][j])

\* on every grid of Grids both renderers give the row-major rendering
RenderersAreRowMajor ==
    \A g \in Grids :
        /\ IsRowMajor(g, AsciiMap(g))
        /\ IsRowMajor(g, ObsStr([has_tty |-> TRUE, tty_chars |-> g, repr |-> << >>]))
        /\ AsciiMap(g) = ObsStr([has_tty |-> TRUE, tty_chars |-> g, repr |-> << >>])

\* C10: both renderers produce the row-major rendering with a newline after
\* every row (ABC / DEF renders as "ABC\nDEF\n"), the same string for the
\* same grid; the Observation column and the displayed map of a snapshot
\* are that rendering.
C10_Rendering ==
    /\ RenderersAreRowMajor
    /\ AsciiMap(GridABCDEF) = <<"A", "B", "C", "\n", "D", "E", "F", "\n">>
    /\ ObsStr(ObsABCDEF) = <<"A", "B", "C", "\n", "D", "E", "F", "\n">>
    /\ (pc = "prompt" /\ obs.has_tty) => IsRowMajor(obs.tty_chars, screen)
    /\ (pc = "prompt" /\ obs.has_tty /\ applied >= 1) =>
          screen = csv.rows[Len(csv.rows)][4]

\* the ABC / DEF snapshot was recorded and is displayed at the prompt
C10_Witness ==
    /\ pc = "prompt"
    /\ obs = ObsABCDEF
    /\ screen = <<"A", "B", "C", "\n", "D", "E", "F", "\n">>
    /\ csv.rows[Len(csv.rows)][4] = <<"A", "B", "C", "\n", "D", "E", "F", "\n">>

\* a grid with no rows or no columns
Degenerate(g) == g.rows = 0 \/ g.cols = 0

\* n newline characters
RECURSIVE Newlines(_)
Newlines(n) == IF n = 0 THEN << >> ELSE <<"\n">> \o Newlines(n - 1)

\* the last data row records the current snapshot, whose grid is degenerate
DegenerateRecorded ==
    /\ applied >= 1
    /\ obs.has_tty
    /\ Degenerate(obs.tty_chars)

\* C11 as claimed: whenever a grid with zero rows or zero columns has been
\* rendered into the Observation column, the rendering is the empty string.
C11_DegenerateRendersEmpty ==
    DegenerateRecorded => csv.rows[Len(csv.rows)][4] = << >>

\* on every degenerate grid of Grids both renderers give one newline per row
DegenerateRendersNewlines ==
    \A g \in Grids :
        Degenerate(g) =>
            /\ AsciiMap(g) = Newlines(g.rows)
            /\ ObsStr([has_tty |-> TRUE, tty_chars |-> g, repr |-> << >>]) = Newlines(g.rows)

\* C11 amended: a grid with zero rows renders as the empty string, a grid of
\* R > 0 rows of zero columns renders as R newlines (one per row), by both
\* renderers and in the Observation column, and neither rendering faults.
C11_DegenerateRendersNewlines ==
    /\ DegenerateRendersNewlines
    /\ AsciiMap(GridEmpty) = << >>
    /\ AsciiMap(GridNoCols) = <<"\n", "\n">>
    /\ DegenerateRecorded =>
          csv.rows[Len(csv.rows)][4] = Newlines(obs.tty_chars.rows)

\* the snapshot of two rows and no columns was recorded as two newlines
C11_Witness ==
    /\ applied >= 1
    /\ obs = ObsNoCols
    /\ csv.rows[Len(csv.rows)][4] = <<"\n", "\n">>

\* C12: when the script has exited, a completed run has had its final
\* cumulative return printed, and a failure that left run_human_episode has
\* had its traceback printed and a non-zero exit status.
C12_ExitBehaviour ==
    main.state = "exited" =>
        /\ Persisted => main.score = <<episode_return>>
        /\ pc = "raised" => (main.trace /\ main.status # 0)

\* C15: when writing the snapshot file of an applied step fails, the step's
\* row is in the trajectory file, the step is counted by the step counter
\* and the tracker, and the loop goes on with the new snapshot.
C15_SnapshotFailureKeepsStep ==
    /\ [][ (pc = "step" /\ last' = "dump_failed") =>
              /\ Len(csv'.rows) = Len(csv.rows) + 1
              /\ csv'.rows[Len(csv'.rows)][1] = step
              /\ csv'.rows[Len(csv'.rows)][2] = action_str
              /\ csv'.rows[Len(csv'.rows)][4] = ObsStr(obs')
              /\ csv'.rows[Len(csv'.rows)][6] = done'
              /\ step' = step + 1
              /\ applied' = applied + 1
              /\ tracker'.steps = tracker.steps + 1
              /\ tracker'.last_observation = <<obs'>>
              /\ \E out \in StepOutcomes : obs' = out.obs /\ done' = out.done
              /\ step' \notin debug'
              /\ pc' = "loop"
              /\ result' = << >>
      ]_vars
    /\ [](Persisted => summary_file[1].num_steps = applied)

\* the snapshot of the first step could not be written; the step is counted
\* and the ABC / DEF snapshot is the current one
C15_Witness ==
    /\ pc = "prompt"
    /\ last = "dump_failed"
    /\ step = 1
    /\ debug = {}
    /\ Len(DataRows) = 1
    /\ obs = ObsABCDEF
    /\ screen = <<"A", "B", "C", "\n", "D", "E", "F", "\n">>

\* the command names the controls banner and show_help advertise
AdvertisedCommands ==
    { <<"n", "o", "r", "t", "h">>, <<"e", "a", "s", "t">>, <<"s", "o", "u", "t", "h">>, <<"w", "e", "s", "t">>, <<"n", "o", "r", "t", "h", "e", "a", "s", "t">>, <<"s", "o", "u", "t", "h", "e", "a", "s", "t">>,
      <<"s", "o", "u", "t", "h", "w", "e", "s", "t">>, <<"n", "o", "r", "t", "h", "w", "e", "s", "t">>, <<"u", "p">>, <<"d", "o", "w", "n">>, <<"w", "a", "i", "t">>, <<"s", "e", "a", "r", "c", "h">>,
      <<"i", "n", "v", "e", "n", "t", "o", "r", "y">>, <<"p", "i", "c", "k", "u", "p">>, <<"k", "i", "c", "k">>, <<"e", "a", "t">>, <<"o", "p", "e", "n">>, <<"c", "l", "o", "s", "e">>,
      <<"d", "r", "o", "p">>, <<"p", "r", "a", "y">>, <<"c", "a", "s", "t">>, <<"w", "i", "e", "l", "d">>, <<"p", "u", "t", "o", "n">>, <<"r", "e", "m", "o", "v", "e">>,
      <<"t", "h", "r", "o", "w">>, <<"a", "c", "t", "i", "o", "n", "l", "i", "s", "t">>, <<"h", "e", "l", "p">>, <<"q", "u", "i", "t">> }

\* C16: an advertised command name is never rejected as an unknown command.
C16_AdvertisedAccepted ==
    last = "unknown" => typed \notin AdvertisedCommands

\* C18: a failed env.step leaves the step counter, the return, the tracker,
\* the done flag and the current snapshot as they were, and the next prompt
\* shows that same snapshot.
C18_FailedStepFrame ==
    [][ /\ (pc = "step" /\ last' = "step_failed") =>
              /\ step' = step
              /\ episode_return' = episode_return
              /\ tracker' = tracker
              /\ done' = done
              /\ obs' = obs
              /\ csv' = csv
              /\ debug' = debug
        /\ (pc = "loop" /\ last = "step_failed") =>
              /\ pc' = "prompt"
              /\ screen' = screen
              /\ obs' = obs
      ]_vars

\* the attempt after one applied step failed, and the prompt shows the
\* snapshot of that applied step
C18_Witness ==
    /\ pc = "prompt"
    /\ last = "step_failed"
    /\ step = 1
    /\ tracker.steps = 1
    /\ obs = ObsABCDEF
    /\ screen = <<"A", "B", "C", "\n", "D", "E", "F", "\n">>

\* C19: the Step column of the data rows is 0, 1, ..., n-1 in file order,
\* n being the step counter.
C19_StepColumnOrdinals ==
    csv.exists =>
        /\ Len(DataRows) = step
        /\ \A i \in 1..Len(DataRows) : DataRows[i][1] = i - 1

\* two steps taken with different commands were recorded
C19_Witness ==
    /\ Len(DataRows) = 2
    /\ DataRows[1][1] = 0
    /\ DataRows[2][1] = 1
    /\ DataRows[1][2] # DataRows[2][2]
    /\ step = 2

RECURSIVE SumCounts(_, _)
\* the sum of the counts f[k] over the keys k in ks
SumCounts(f, ks) ==
    IF ks = {} THEN 0
    ELSE LET k == CHOOSE x \in ks : TRUE IN f[k] + SumCounts(f, ks \ {k})

\* C20: at the loop head the tracker agrees with the loop's own counters,
\* and so does the persisted summary: steps = num_steps, total_reward =
\* episode_return, and the per-command counts sum to num_steps.
C20_CountersAgree ==
    /\ pc = "loop" =>
          /\ tracker.steps = step
          /\ tracker.total_reward = episode_return
          /\ SumCounts(tracker.actions, DOMAIN tracker.actions) = step
    /\ Persisted =>
          /\ summary_file[1].steps = summary_file[1].num_steps
          /\ summary_file[1].total_reward = summary_file[1].episode_return
          /\ SumCounts(summary_file[1].actions, DOMAIN summary_file[1].actions)
                = summary_file[1].num_steps
          /\ summary_file[1].num_steps = step

\* a persisted summary of two steps taken with the same command
C20_Witness ==
    /\ Persisted
    /\ summary_file[1].num_steps = 2
    /\ summary_file[1].actions = (<<"w">> :> 2)

(***************************************************************************)
(* Termination of the two episode loops.                                   *)
(***************************************************************************)
\* the run of either script is over
RunEnded == pc \in Terminal \/ tw.pc \in {"closed", "crashed"}

\* the human loop is running, and the while condition holds with the step
\* counter at k
Idling(k) == InLoop(pc) /\ ~done /\ step = k /\ step < args.max_steps

\* C13 as stated: every run of an episode loop eventually reaches a terminal
\* state, whatever the operator types and whatever the environment answers.
C13_Terminates == <>RunEnded

\* C13: every run of the model-driven loop ends; a run of the human loop
\* either ends, or from some point on it stays in the loop with the
\* environment not done and the step counter frozen below max_steps (every
\* later iteration is a rejected command, a help or actionlist request, or a
\* step that raised).
C13_TerminatesOrIdles ==
    <>RunEnded \/ \E k \in 0..MaxSteps : <>[]Idling(k)

\* the operator asked for help after one step was applied, with the limit
\* not yet reached: the loop goes on without having moved towards its end
C13_Witness ==
    /\ pc = "loop"
    /\ last = "help"
    /\ applied = 1 /\ step = 1 /\ step < args.max_steps
    /\ ~done

(***************************************************************************)
(* The model-driven loop.                                                  *)
(***************************************************************************)
\* what the environment returned last (env.reset() or env.step())
EnvGave == tw.envGave[1]

\* the feedback of the latest step, the empty string before the first one
PriorFeedback ==
    IF tw.envSteps = 0 THEN "" ELSE Get(EnvGave.infos, "last_feedback", "")

TwLoopInvariant ==
    tw.pc \notin {"idle", "reset"} =>
        /\ tw.pc \in {"ask", "step"} =>
               tw.messages = build_prompt(EnvGave.obs, PriorFeedback,
                                 Get(EnvGave.infos, "admissible_commands", << >>))
        /\ tw.requests = tw.envSteps + (IF tw.pc \in {"step", "crashed"} THEN 1 ELSE 0)
        /\ tw.pc = "step" => tw.action = Strip(tw.completion)
        /\ (tw.pc \in {"loop", "closed"} /\ tw.envSteps > 0) =>
               tw.stepArgs = <<Strip(tw.completion)>>
        /\ tw.done => tw.pc \in {"loop", "closed"}
        /\ tw.pc = "closed" => (tw.done /\ tw.env = "closed")

\* C17: in the model-driven loop the prompt is built from the observation and
\* admissible commands the environment returned last and the feedback of the
\* latest step; one completion is requested per env.step call; env.step gets
\* the completion stripped and nothing else; once the environment has
\* reported done no completion is requested and no step is made, and the
\* environment is then closed.
C17_ModelDrivenLoop ==
    /\ []TwLoopInvariant
    /\ [][tw.done => (tw'.envSteps = tw.envSteps /\ tw'.requests = tw.requests)]_vars
    /\ [][tw'.envSteps # tw.envSteps =>
            (tw'.envSteps = tw.envSteps + 1 /\ tw'.stepArgs = <<Strip(tw.completion)>>)]_vars
    /\ (tw.done ~> tw.env = "closed")

\* two steps were made, the second with "Take Key" (the completion
\* " Take Key\n" stripped, its capitals kept), and the loop has ended
C17_Witness ==
    /\ tw.pc = "closed"
    /\ tw.envSteps = 2
    /\ tw.stepArgs = <<<<"T", "a", "k", "e", " ", "K", "e", "y">>>>
    /\ tw.completion = <<" ", "T", "a", "k", "e", " ", "K", "e", "y", "\n">>

(***************************************************************************)
(* Replay.                                                                 *)
(***************************************************************************)
\* the second run is over
Replayed == earlier # << >> /\ pc \in Terminal

\* C14: when run_human_episode is run twice with the same given seed, the
\* same lines on standard input and a deterministic stub environment, the
\* second run's trajectory file holds the same rows, in the same order with
\* the same field values, as the first run's.
C14_ReplayWritesSameFile ==
    (Replayed /\ args.seed # << >>) => csv = earlier[1].csv

\* both runs were seeded with 0, applied two steps and wrote the header and
\* the same two rows
C14_Witness ==
    /\ Replayed
    /\ args.seed = <<0>>
    /\ earlier[1].seed = seed
    /\ Len(DataRows) = 2
    /\ csv = earlier[1].csv

====
